---- MODULE Spec2Model ----
(***************************************************************************)
(* Diplodocache: a persistent fetch cache.  Two single-threaded contexts   *)
(* exchange messages over two ordered channels:                            *)
(*   - the session (src/src/mod.ts, class Diplodocache) owns readyState    *)
(*     and the correlation table #work of deferred promises;               *)
(*   - the worker (src/unnamed/part_000 = worker.ts, src/src/fetch.ts,     *)
(*     src/src/queue.ts) owns cacheMeta, the download queue and the files. *)
(* Log messages carry no state and are left out of the channels.           *)
(***************************************************************************)
EXTENDS Integers, Sequences, FiniteSets, TLC

VARIABLES
  readyState,   \* mod.ts #readyState: 0 Opening, 1 Ready, 2 Closing, 3 Closed
  readyDone,    \* the 'ready' deferred of #work has been resolved
  closedDone,   \* the 'closed' deferred of #work has been resolved
  work,         \* mod.ts #work without 'ready'/'closed': key -> deferred id
  deferred,     \* every deferred made by fetch/meta/purge/clean: id -> record
  awaiting,     \* async calls suspended at `await this.ready`, in call order
  calls,        \* number of public calls made so far
  lastCall,     \* how the most recent public call returned
  toWorker,     \* messages posted by the session, not yet handled by the worker
  toMain,       \* messages posted by the worker, not yet handled by the session
  wState,       \* worker context: "run", "closing", "closed", "crashed"
  cachePath,    \* worker.ts cachePath: "" until the ready message, then "dir"
  cacheMeta,    \* worker.ts cacheMeta: url -> entry (domain = own keys)
  files,        \* files of the cache directory: name -> size
  metaFile,     \* content of meta.json: url -> entry
  waiting,      \* queue: items appended and not yet started, in queue order
  running,      \* queue: started items (getPending): item id -> task record
  nextItem,     \* number of items the worker has created
  cleaner,      \* position of the asynchronous onClean handler
  closeSnap,    \* JSON text handed to writeTextFile by onClose
  now           \* Date.now()

vars == <<readyState, readyDone, closedDone, work, deferred, awaiting, calls, lastCall,
          toWorker, toMain, wState, cachePath, cacheMeta, files, metaFile,
          waiting, running, nextItem, cleaner, closeSnap, now>>

mainVars == <<readyState, readyDone, closedDone, work, deferred, awaiting, calls,
              lastCall>>
workerVars == <<wState, cachePath, cacheMeta, files, metaFile, waiting, running,
                nextItem, cleaner, closeSnap>>
queueVars == <<waiting, running, nextItem>>

-----------------------------------------------------------------------------
(* Bounds of the model                                                     *)

MaxCalls == 2       \* public calls in one behaviour of Spec
MaxFetches == 1     \* fetch calls in one behaviour of SpecFetch
MaxTime == 2        \* Date.now() ranges over 0..MaxTime
MaxChunks == 1      \* chunks an upstream body is delivered in
MaxQueued == 6      \* fetch calls in one behaviour of SpecQueue
MaxSorted == 2      \* fetch calls made while the queue is full in SpecSort
MaxTwins == 2       \* fetch calls in one behaviour of SpecTwin
MaxShut == 3        \* public calls in one behaviour of SpecClose
MaxCleans == 3      \* public calls in one behaviour of SpecClean
MaxRaces == 3       \* public calls in one behaviour of SpecRace

-----------------------------------------------------------------------------
(* Program constants                                                       *)

Opening == 0
Ready == 1
Closing == 2
Closed == 3

DefaultMaxAge == 3600000
DefaultTimeout == 600000

-----------------------------------------------------------------------------
(* Values                                                                  *)

\* An option the caller left out: a string, a flag, a number
None == "none"
NoAccept == <<"none", "none">>
NoNumber == -1
URLs == {1, 2}

\* encodeHash: deterministic and injective on the URLs of the model
encodeHash(url) == 100 + url
\* a file name stored in an index written by an earlier hash function
StaleHash(url) == 200 + url

DefaultOptions == [accept |-> NoAccept, compress |-> None, maxAge |-> NoNumber,
                   prefetch |-> None, timeout |-> NoNumber]

Key(kind, url) == <<kind, url>>
CleanKey == <<"clean", 0>>

Msg(type, url) ==
  [url |-> url, type |-> type, options |-> DefaultOptions, body |-> "none",
   xcache |-> "none", status |-> 0, success |-> FALSE, found |-> FALSE]

Without(f, k) == [x \in (DOMAIN f) \ {k} |-> f[x]]
With(f, k, v) == [x \in (DOMAIN f) \cup {k} |-> IF x = k THEN v ELSE f[x]]
Empty == [x \in {} |-> 0]

-----------------------------------------------------------------------------
(* Session side: class Diplodocache, src/src/mod.ts                        *)

\* #postMessage
postMessage(m) == toWorker' = Append(toWorker, m)

NewDeferred(kind, url) ==
  [kind |-> kind, url |-> url, st |-> "pending", val |-> "none", hdr |-> "none",
   status |-> 0]

\* Continuations of `await this.ready` are microtasks: once ready is resolved
\* they run before the session handles its next message event.
MicrotaskPending == readyDone /\ awaiting # <<>>

\* A public method is called (at most cap calls in one behaviour) and
\* returns as `ret` says
Returned(ret, cap) ==
  /\ calls < cap
  /\ calls' = calls + 1
  /\ lastCall' = ret

\* Rejects with the guard off by one: calls pass while Closing
Rejects_OnlyClosed(state) == state > 2

\* The guard shared by fetch, meta and purge: `if (this.readyState > 1) throw`
Rejects(state) == state > 1

\* fetch/meta/purge up to `await this.ready` (the synchronous part of the call)
AsyncCall(kind, url, options, cap) ==
  /\ IF Rejects(readyState)
       THEN /\ Returned("threw", cap)
            /\ UNCHANGED awaiting
       ELSE IF Key(kind, url) \in DOMAIN work
         THEN /\ Returned("shared", cap)
              /\ UNCHANGED awaiting
         ELSE /\ Returned("await", cap)
              /\ awaiting' = Append(awaiting,
                                    [kind |-> kind, url |-> url, options |-> options])
  /\ UNCHANGED <<readyState, readyDone, closedDone, work, deferred, toWorker,
                 toMain, workerVars, now>>

\* fetch/meta/purge after `await this.ready`: register the deferred, post
Resume(kind) ==
  /\ readyDone
  /\ awaiting # <<>>
  /\ Head(awaiting).kind = kind
  /\ LET c == Head(awaiting)
         d == Len(deferred) + 1
     IN /\ deferred' = Append(deferred, NewDeferred(kind, c.url))
        /\ work' = With(work, Key(kind, c.url), d)
        /\ postMessage([Msg(kind, c.url) EXCEPT !.options = c.options])
  /\ awaiting' = Tail(awaiting)
  /\ UNCHANGED <<readyState, readyDone, closedDone, calls, lastCall, toMain,
                 workerVars, now>>

Fetch(url, options, cap) == AsyncCall("fetch", url, options, cap)
FetchResume == Resume("fetch")
Meta(url, cap) == AsyncCall("meta", url, DefaultOptions, cap)
MetaResume == Resume("meta")
Purge(url, cap) == AsyncCall("purge", url, DefaultOptions, cap)
PurgeResume == Resume("purge")

\* clean()
Clean(cap) ==
  /\ IF CleanKey \notin DOMAIN work
       THEN /\ deferred' = Append(deferred, NewDeferred("clean", 0))
            /\ work' = With(work, CleanKey, Len(deferred) + 1)
            /\ postMessage(Msg("clean", 0))
            /\ Returned("clean", cap)
       ELSE /\ Returned("clean shared", cap)
            /\ UNCHANGED <<deferred, work, toWorker>>
  /\ UNCHANGED <<readyState, readyDone, closedDone, awaiting, toMain, workerVars, now>>

\* close()
Close(cap) ==
  /\ IF readyState < 2
       THEN /\ readyState' = 2
            /\ postMessage(Msg("close", 0))
       ELSE UNCHANGED <<readyState, toWorker>>
  /\ Returned("closed", cap)
  /\ UNCHANGED <<readyDone, closedDone, work, deferred, awaiting, toMain,
                 workerVars, now>>

\* #onMessage dispatch: the session handles the oldest message of the worker
Receives(type) ==
  /\ toMain # <<>>
  /\ Head(toMain).type = type
  /\ ~MicrotaskPending
  /\ toMain' = Tail(toMain)

Settle(d, st, val, hdr) ==
  deferred' = [deferred EXCEPT ![d] = [@ EXCEPT !.st = st, !.val = val, !.hdr = hdr]]

\* #onReady, followed by the constructor's `this.ready.then(...)`
MainOnReady ==
  /\ Receives("ready")
  /\ readyDone' = TRUE
  /\ readyState' = IF readyDone THEN readyState ELSE 1
  /\ postMessage(Msg("ready", 0))
  /\ UNCHANGED <<closedDone, work, deferred, awaiting, calls, lastCall, workerVars,
                 now>>

\* #onClose, followed by the constructor's `this.closed.then(...)`:
\* readyState = 3 and this.#worker.terminate()
MainOnClose ==
  /\ Receives("close")
  /\ closedDone' = TRUE
  /\ readyState' = IF closedDone THEN readyState ELSE 3
  /\ wState' = IF wState = "crashed" THEN wState ELSE "closed"
  /\ UNCHANGED <<readyDone, work, deferred, awaiting, calls, lastCall, toWorker,
                 cachePath, cacheMeta, files, metaFile, waiting, running,
                 nextItem, cleaner, closeSnap, now>>

\* #onClean
MainOnClean ==
  /\ Receives("clean")
  /\ IF CleanKey \in DOMAIN work
       THEN /\ Settle(work[CleanKey], "resolved", "true", "none")
            /\ work' = Without(work, CleanKey)
       ELSE UNCHANGED <<work, deferred>>
  /\ UNCHANGED <<readyState, readyDone, closedDone, awaiting, calls, lastCall, toWorker,
                 workerVars, now>>

\* #onMeta
MainOnMeta ==
  /\ Receives("meta")
  /\ LET m == Head(toMain)
         key == Key("meta", m.url)
     IN IF key \in DOMAIN work
          THEN /\ Settle(work[key], "resolved",
                         IF m.found THEN "metadata" ELSE "undefined", "none")
               /\ work' = Without(work, key)
          ELSE UNCHANGED <<work, deferred>>
  /\ UNCHANGED <<readyState, readyDone, closedDone, awaiting, calls, lastCall, toWorker,
                 workerVars, now>>

\* #onPurge
MainOnPurge ==
  /\ Receives("purge")
  /\ LET m == Head(toMain)
         key == Key("purge", m.url)
     IN IF key \in DOMAIN work
          THEN /\ Settle(work[key], "resolved",
                         IF m.success THEN "true" ELSE "false", "none")
               /\ work' = Without(work, key)
          ELSE UNCHANGED <<work, deferred>>
  /\ UNCHANGED <<readyState, readyDone, closedDone, awaiting, calls, lastCall, toWorker,
                 workerVars, now>>

\* The status of `new Response(body, {headers})`: the init names no status
ResponseStatus == 200

\* serveFile(request, path) of the file server: 200 with the file, 404
\* without it (ranges and conditional requests left out)
serveFile(fs, url) == IF encodeHash(url) \in DOMAIN fs THEN ResponseStatus ELSE 404

\* deferred.resolve(response)
Respond(d, val, hdr, status) ==
  deferred' = [deferred EXCEPT ![d] = [@ EXCEPT !.st = "resolved", !.val = val,
                                                !.hdr = hdr, !.status = status]]

\* #onResponse: body undefined rejects, body null resolves with headers only,
\* otherwise the file at the body path is served with the message's headers.
\* The payload's `status` is not read.
MainOnResponse ==
  /\ Receives("response")
  /\ LET m == Head(toMain)
         key == Key("fetch", m.url)
     IN IF key \in DOMAIN work
          THEN /\ work' = Without(work, key)
               /\ IF m.body = "undefined"
                    THEN Settle(work[key], "rejected", "undefined", "none")
                    ELSE IF m.body = "null"
                      THEN Respond(work[key], "headers", m.xcache, ResponseStatus)
                      ELSE Respond(work[key], "file", m.xcache, serveFile(files, m.url))
          ELSE UNCHANGED <<work, deferred>>
  /\ UNCHANGED <<readyState, readyDone, closedDone, awaiting, calls, lastCall, toWorker,
                 workerVars, now>>

-----------------------------------------------------------------------------
(* Download queue: src/src/queue.ts and the Queue of deps.ts               *)

\* Concurrency with one slot too many
Concurrency_OneMore == 5 + 1

\* createQueue: `concurrency: 5`
Concurrency == 5

\* The first entry of an accept list, as <<type, subtype>>
JsonSubtypes == {"json", "json; charset=utf-8"}   \* startsWith('application/json')
XmlSubtypes == {"xml", "atom+xml", "svg+xml"}     \* /^(application|text)\/(\w+\+)?xml/
AcceptAny == <<"*", "*">>

\* sortValue without priorities: every media type ranks the same
sortValue_Flat(accept) == 3

\* sortValue
sortValue(accept) ==
  IF accept[1] = "application" /\ accept[2] \in JsonSubtypes THEN 1
  ELSE IF accept[1] \in {"application", "text"} /\ accept[2] \in XmlSubtypes THEN 1
  ELSE IF accept[1] = "image" THEN 2
  ELSE IF accept[1] = "audio" THEN 4
  ELSE 3

\* Array.prototype.sort is stable: an item goes behind every item that does
\* not compare greater than it
RECURSIVE InsertStable(_, _)
InsertStable(item, sorted) ==
  IF sorted = <<>> THEN <<item>>
  ELSE IF sortValue(Head(sorted).options.accept) - sortValue(item.options.accept) > 0
    THEN <<item>> \o sorted
    ELSE <<Head(sorted)>> \o InsertStable(item, Tail(sorted))

RECURSIVE sortQueue(_)
sortQueue(q) ==
  IF q = <<>> THEN <<>>
  ELSE InsertStable(q[Len(q)], sortQueue(SubSeq(q, 1, Len(q) - 1)))

\* A started item: the queue has called fetchCallback(item); the callback's
\* synchronous part runs before the worker handles anything else.
\* (`purged` is kept for comparison: a purge has removed the entry this
\* item recorded, while the item was between that and its commit.)
Started(item) ==
  [url |-> item.url, hash |-> item.hash, options |-> item.options, pc |-> "start",
   aborted |-> FALSE, status |-> 500, timer |-> -1, left |-> 0, purged |-> FALSE]

\* fetchFresh between `cacheMeta[url] = {...}` and the commit after Deno.stat
Streaming(item) == item.pc \in {"open", "read", "write", "stat"}

Starting == \E t \in DOMAIN running : running[t].pc = "start"

\* An aborted item that waits for the network response or for a read of the
\* body: controller.abort() rejects that promise at once, so the failure
\* path of the item runs as a microtask, before the worker takes up any
\* other callback
Unwinding ==
  \E t \in DOMAIN running : running[t].aborted /\ running[t].pc \in {"net", "read"}

MicrotaskDue == Starting \/ Unwinding

\* The continuation of item t may run now
Turn(t) == ~Starting /\ (Unwinding => running[t].aborted)

\* Queue.append followed by sortQueue(queue): the item starts at once while
\* fewer than `concurrency` items run, otherwise it waits in sorted order
QueueAppend(item) ==
  IF Cardinality(DOMAIN running) < Concurrency
    THEN /\ running' = With(running, item.id, Started(item))
         /\ waiting' = sortQueue(waiting)
    ELSE /\ waiting' = sortQueue(Append(waiting, item))
         /\ UNCHANGED running

\* The queue when the callback of item t returns: t leaves the running items
\* and the first waiting item starts
QueueDone(t) ==
  IF waiting = <<>>
    THEN /\ running' = Without(running, t)
         /\ UNCHANGED waiting
    ELSE /\ running' = With(Without(running, t), Head(waiting).id, Started(Head(waiting)))
         /\ waiting' = Tail(waiting)

-----------------------------------------------------------------------------
(* Worker: src/unnamed/part_000 (worker.ts), remove.ts in src/src/queue.ts *)

sendMessage(ms) == toMain' = toMain \o ms

WorkerAlive == wState \in {"run", "closing"}

\* The worker's message listener takes the oldest message of the session
Handles(type) ==
  /\ WorkerAlive
  /\ ~MicrotaskDue
  /\ toWorker # <<>>
  /\ Head(toWorker).type = type
  /\ toWorker' = Tail(toWorker)

\* removeMeta leaving the entry in the index
removeMeta_Keep(meta, url) == meta

\* removeFile taking the file of the other URL
removeFile_Neighbour(fs, url) == Without(fs, encodeHash(3 - url))

\* removeSync: `delete cacheMeta[url]`, then Deno.removeSync of the file named
\* encodeHash(url); with bubble the error of a missing file is rethrown
removeMeta(meta, url) == Without(meta, url)
removeFile(fs, url) == Without(fs, encodeHash(url))
removeThrows(fs, url) == encodeHash(url) \notin DOMAIN fs

\* onReady: cachePath is set and cacheMeta is read from meta.json
OnReady ==
  /\ Handles("ready")
  /\ cachePath' = "dir"
  /\ cacheMeta' = metaFile
  /\ UNCHANGED <<mainVars, toMain, wState, files, metaFile, queueVars, cleaner,
                 closeSnap, now>>

\* onMeta
OnMeta ==
  /\ Handles("meta")
  /\ LET url == Head(toWorker).url
     IN sendMessage(<<[Msg("meta", url) EXCEPT !.found = url \in DOMAIN cacheMeta]>>)
  /\ UNCHANGED <<mainVars, workerVars, now>>

\* The purge responses of onPurge: the catch block posts success = false and
\* does not return, so success = true is posted after it
purgeResponses(url, threw) ==
  IF threw
    THEN << [Msg("purge", url) EXCEPT !.success = FALSE],
            [Msg("purge", url) EXCEPT !.success = TRUE] >>
    ELSE << [Msg("purge", url) EXCEPT !.success = TRUE] >>

\* onPurge
OnPurge ==
  /\ Handles("purge")
  /\ LET url == Head(toWorker).url
     IN /\ cacheMeta' = removeMeta(cacheMeta, url)
        /\ files' = removeFile(files, url)
        /\ sendMessage(purgeResponses(url, removeThrows(files, url)))
        /\ running' = [t \in DOMAIN running |->
                         IF /\ running[t].url = url
                            /\ Streaming(running[t])
                            /\ url \in DOMAIN cacheMeta
                           THEN [running[t] EXCEPT !.purged = TRUE]
                           ELSE running[t]]
  /\ UNCHANGED <<mainVars, wState, cachePath, metaFile, waiting, nextItem, cleaner,
                 closeSnap, now>>

\* The options of a Download: `props.x ?? default`
Resolved(o) ==
  [accept |-> IF o.accept = NoAccept THEN AcceptAny ELSE o.accept,
   compress |-> IF o.compress = None THEN FALSE ELSE o.compress = "true",
   maxAge |-> IF o.maxAge = NoNumber THEN DefaultMaxAge ELSE o.maxAge,
   prefetch |-> IF o.prefetch = None THEN FALSE ELSE o.prefetch = "true",
   timeout |-> IF o.timeout = NoNumber THEN DefaultTimeout ELSE o.timeout]

\* onFetch
OnFetch ==
  /\ Handles("fetch")
  /\ LET m == Head(toWorker)
         item == [id |-> nextItem + 1, url |-> m.url, hash |-> encodeHash(m.url),
                  options |-> Resolved(m.options)]
     IN QueueAppend(item)
  /\ nextItem' = nextItem + 1
  /\ UNCHANGED <<mainVars, toMain, wState, cachePath, cacheMeta, files, metaFile,
                 cleaner, closeSnap, now>>

-----------------------------------------------------------------------------
(* Fetch pipeline: src/src/fetch.ts                                        *)

\* value.length of a chunk read from the body, through gzip when compressing
ChunkLen(compress) == IF compress THEN 2 ELSE 1

\* fetchCache expiring an entry already at age = maxAge (>= for >)
fetchCache_Eager(meta, item, time) ==
  IF item.url \notin DOMAIN meta THEN 404
  ELSE IF meta[item.url].hash # item.hash THEN 410
  ELSE IF time - meta[item.url].created >= item.options.maxAge THEN 410
  ELSE 200

\* fetchCache without the age check
fetchCache_NoExpiry(meta, item, time) ==
  IF item.url \notin DOMAIN meta THEN 404
  ELSE IF meta[item.url].hash # item.hash THEN 410
  ELSE 200

\* fetchCache, the status it returns: 404 not cached, 410 hash mismatch or
\* expired, 200 hit
fetchCache(meta, item, time) ==
  IF item.url \notin DOMAIN meta THEN 404
  ELSE IF meta[item.url].hash # item.hash THEN 410
  ELSE IF time - meta[item.url].created > item.options.maxAge THEN 410
  ELSE 200

\* fetchCache, the response message it posts on a hit
hitMessage(item) ==
  [Msg("response", item.url) EXCEPT
     !.body = IF item.options.prefetch THEN "undefined" ELSE "path",
     !.xcache = "HIT"]

\* fetchFresh, the response message it posts after the commit
missMessage(item) ==
  [Msg("response", item.url) EXCEPT
     !.body = IF item.options.prefetch THEN "undefined" ELSE "path",
     !.xcache = "MISS"]

\* fetchCallback, the failed response
failMessage(item, status) ==
  [Msg("response", item.url) EXCEPT !.body = "null", !.status = status]

\* fetchFresh, the entry stored in cacheMeta when the response headers are in
newEntry(item, contentLength, time) ==
  [hash |-> item.hash, created |-> time, maxAge |-> item.options.maxAge,
   compressed |-> item.options.compress, contentLength |-> contentLength,
   contentSize |-> 0, downloaded |-> FALSE]

Runs(t, pc) ==
  /\ WorkerAlive
  /\ t \in DOMAIN running
  /\ running[t].pc = pc

\* fetchCallback after the try block: removeSync(url), the failed response,
\* `return false`
Fail(t, status) ==
  /\ cacheMeta' = removeMeta(cacheMeta, running[t].url)
  /\ files' = removeFile(files, running[t].url)
  /\ sendMessage(<<failMessage(running[t], status)>>)
  /\ QueueDone(t)

\* fetchCallback up to the first await: the abort check, fetchCache, and on
\* a miss removeSync(url) and the network request of fetchFresh.
\* (`new URL(url)` cannot throw: the session has already parsed the URL.)
TaskStart(t) ==
  /\ Runs(t, "start")
  /\ LET item == running[t]
         status == fetchCache(cacheMeta, item, now)
     IN IF item.aborted
          THEN /\ QueueDone(t)
               /\ UNCHANGED <<cacheMeta, files, toMain>>
          ELSE IF status = 200
            THEN /\ sendMessage(<<hitMessage(item)>>)
                 /\ QueueDone(t)
                 /\ UNCHANGED <<cacheMeta, files>>
            ELSE /\ cacheMeta' = removeMeta(cacheMeta, item.url)
                 /\ files' = removeFile(files, item.url)
                 /\ running' = [running EXCEPT ![t].pc = "net", ![t].status = status]
                 /\ UNCHANGED <<waiting, toMain>>
  /\ UNCHANGED <<mainVars, toWorker, wState, cachePath, metaFile, nextItem,
                 cleaner, closeSnap, now>>

\* fetchFresh: `await fetch(url, {signal, headers})` settles with r.
\* A rejection (network error, abort) leaves `status` as fetchCache set it.
TaskNet(t, r) ==
  /\ Runs(t, "net")
  /\ Turn(t)
  /\ LET item == running[t]
     IN IF item.aborted \/ r.kind = "throw"
          THEN Fail(t, item.status)
          ELSE IF r.kind = "bad"
            THEN Fail(t, IF r.status = 200 THEN 418 ELSE r.status)
            ELSE /\ cacheMeta' = With(cacheMeta, item.url,
                                      newEntry(item, r.contentLength, now))
                 /\ running' = [running EXCEPT ![t].pc = "open", ![t].timer = now,
                                               ![t].left = r.chunks]
                 /\ UNCHANGED <<files, toMain, waiting>>
  /\ UNCHANGED <<mainVars, toWorker, wState, cachePath, metaFile, nextItem,
                 cleaner, closeSnap, now>>

\* fetchFresh: `await Deno.open(item.path, {write, create, truncate})`
TaskOpen(t, ok) ==
  /\ Runs(t, "open")
  /\ ~MicrotaskDue
  /\ IF ok
       THEN /\ files' = With(files, running[t].hash, 0)
            /\ running' = [running EXCEPT ![t].pc = "read"]
            /\ UNCHANGED <<cacheMeta, toMain, waiting>>
       ELSE Fail(t, 500)
  /\ UNCHANGED <<mainVars, toWorker, wState, cachePath, metaFile, nextItem,
                 cleaner, closeSnap, now>>

\* fetchFresh: `await reader.read()` settles; the read rejects when the body
\* fails (ok = FALSE) or the signal is aborted
TaskRead(t, ok) ==
  /\ Runs(t, "read")
  /\ Turn(t)
  /\ LET item == running[t]
     IN IF item.aborted \/ ~ok
          THEN Fail(t, 500)
          ELSE IF item.left = 0
            THEN /\ running' = [running EXCEPT ![t].pc = "stat"]
                 /\ UNCHANGED <<cacheMeta, files, toMain, waiting>>
            ELSE IF item.url \in DOMAIN cacheMeta
              THEN /\ cacheMeta' = [cacheMeta EXCEPT ![item.url].contentSize =
                                      @ + ChunkLen(item.options.compress)]
                   /\ running' = [running EXCEPT ![t].pc = "write",
                                                 ![t].left = item.left - 1]
                   /\ UNCHANGED <<files, toMain, waiting>>
              ELSE Fail(t, 500)
  /\ UNCHANGED <<mainVars, toWorker, wState, cachePath, metaFile, nextItem,
                 cleaner, closeSnap, now>>

\* fetchFresh: `await writer.write(value)`; a file unlinked meanwhile takes
\* the bytes without reappearing in the directory
TaskWrite(t, ok) ==
  /\ Runs(t, "write")
  /\ ~MicrotaskDue
  /\ LET item == running[t]
     IN IF ok
          THEN /\ files' = IF item.hash \in DOMAIN files
                             THEN [files EXCEPT ![item.hash] =
                                     @ + ChunkLen(item.options.compress)]
                             ELSE files
               /\ running' = [running EXCEPT ![t].pc = "read"]
               /\ UNCHANGED <<cacheMeta, toMain, waiting>>
          ELSE Fail(t, 500)
  /\ UNCHANGED <<mainVars, toWorker, wState, cachePath, metaFile, nextItem,
                 cleaner, closeSnap, now>>

\* fetchFresh: `await Deno.stat(item.path)`, the commit and the MISS response.
\* stat throws when the file is gone; the assignment throws when the entry is.
TaskStat(t) ==
  /\ Runs(t, "stat")
  /\ ~MicrotaskDue
  /\ LET item == running[t]
     IN IF item.hash \notin DOMAIN files \/ item.url \notin DOMAIN cacheMeta
          THEN Fail(t, 500)
          ELSE /\ cacheMeta' = [cacheMeta EXCEPT
                                  ![item.url].contentLength = files[item.hash],
                                  ![item.url].downloaded = TRUE]
               /\ sendMessage(<<missMessage(item)>>)
               /\ QueueDone(t)
               /\ UNCHANGED files
  /\ UNCHANGED <<mainVars, toWorker, wState, cachePath, metaFile, nextItem,
                 cleaner, closeSnap, now>>

\* fetchFresh: the setTimeout callback, armed once the response headers are in
TaskTimeout(t) ==
  /\ WorkerAlive
  /\ ~MicrotaskDue
  /\ t \in DOMAIN running
  /\ running[t].timer >= 0
  /\ now - running[t].timer >= running[t].options.timeout
  /\ ~running[t].aborted
  /\ running' = [running EXCEPT ![t].aborted = TRUE]
  /\ UNCHANGED <<mainVars, toWorker, toMain, wState, cachePath, cacheMeta, files,
                 metaFile, waiting, nextItem, cleaner, closeSnap, now>>

-----------------------------------------------------------------------------
(* Worker: onClose and onClean, src/unnamed/part_000                       *)

MetaName == 0                     \* the directory entry of meta.json
\* What the last completed onClean left: the index and the names of the
\* files, at the moment it posted its clean message (kept for comparison,
\* as is `began`, the time at which the running onClean was called)
NotSwept == [meta |-> Empty, time |-> 0, swept |-> FALSE, names |-> {}]
CleanerIdle ==
  [pc |-> "idle", todo |-> {}, dir |-> {}, snap |-> Empty, began |-> 0,
   last |-> NotSwept]

\* An async handler whose promise rejects is an unhandled rejection: the
\* worker context ends and posts nothing more.  With cachePath still ''
\* Deno.writeTextFile('') and Deno.readDir('') reject.
NoDirectory == cachePath = ""

\* onClose up to `await Deno.writeTextFile(...)`: queue.clear(), abort of the
\* running items, JSON.stringify(cacheMeta)
OnClose ==
  /\ Handles("close")
  /\ waiting' = <<>>
  /\ running' = [t \in DOMAIN running |-> [running[t] EXCEPT !.aborted = TRUE]]
  /\ IF NoDirectory
       THEN /\ wState' = "crashed"
            /\ UNCHANGED closeSnap
       ELSE /\ wState' = "closing"
            /\ closeSnap' = cacheMeta
  /\ UNCHANGED <<mainVars, toMain, cachePath, cacheMeta, files, metaFile,
                 nextItem, cleaner, now>>

\* onClose after the write: the close message, then self.close()
OnCloseDone ==
  /\ wState = "closing"
  /\ ~MicrotaskDue
  /\ metaFile' = closeSnap
  /\ sendMessage(<<Msg("close", 0)>>)
  /\ wState' = "closed"
  /\ UNCHANGED <<mainVars, toWorker, cachePath, cacheMeta, files, queueVars,
                 cleaner, closeSnap, now>>

\* Expired for a sweep that lets every entry live
Expired_Never(entry, time) == FALSE

Expired(entry, time) == time - entry.created > entry.maxAge

\* Deno.readDir(cachePath): the entries of the directory when it is read
readDir(fs) == DOMAIN fs \cup {MetaName}

\* onClean up to its first await: Object.entries(cacheMeta) is taken
OnClean ==
  /\ Handles("clean")
  /\ cleaner.pc = "idle"
  /\ IF NoDirectory
       THEN /\ wState' = "crashed"
            /\ UNCHANGED cleaner
       ELSE /\ wState' = wState
            /\ cleaner' =
                 IF DOMAIN cacheMeta = {}
                   THEN [cleaner EXCEPT !.pc = "dir", !.dir = readDir(files),
                                        !.began = now]
                   ELSE [cleaner EXCEPT !.pc = "entries", !.began = now,
                           !.todo = {<<u, cacheMeta[u]>> : u \in DOMAIN cacheMeta}]
  /\ UNCHANGED <<mainVars, toMain, cachePath, cacheMeta, files, metaFile,
                 queueVars, closeSnap, now>>

\* onClean, first loop: `await Deno.stat(entryPath)` of one entry settles;
\* a missing file or an expired entry is removed with removeSync(url)
CleanEntry(e) ==
  /\ WorkerAlive
  /\ ~MicrotaskDue
  /\ cleaner.pc = "entries"
  /\ e \in cleaner.todo
  /\ LET url == e[1]
         entry == e[2]
         remove == entry.hash \notin DOMAIN files \/ Expired(entry, now)
         fs == IF remove THEN removeFile(files, url) ELSE files
         rest == cleaner.todo \ {e}
     IN /\ cacheMeta' = IF remove THEN removeMeta(cacheMeta, url) ELSE cacheMeta
        /\ files' = fs
        /\ cleaner' = IF rest = {}
                        THEN [cleaner EXCEPT !.pc = "dir", !.todo = {},
                                             !.dir = readDir(fs)]
                        ELSE [cleaner EXCEPT !.todo = rest]
  /\ UNCHANGED <<mainVars, toWorker, toMain, wState, cachePath, metaFile,
                 queueVars, closeSnap, now>>

\* onClean, second loop: one directory entry; a name that is the hash of no
\* entry of cacheMeta is removed (meta.json is such a name)
CleanDir(name) ==
  /\ WorkerAlive
  /\ ~MicrotaskDue
  /\ cleaner.pc = "dir"
  /\ name \in cleaner.dir
  /\ LET known == \E u \in DOMAIN cacheMeta : cacheMeta[u].hash = name
         rest == cleaner.dir \ {name}
     IN /\ files' = IF known THEN files ELSE Without(files, name)
        /\ metaFile' = IF name = MetaName /\ ~known THEN Empty ELSE metaFile
        /\ cleaner' = IF rest = {}
                        THEN [cleaner EXCEPT !.pc = "flush", !.dir = {},
                                             !.snap = cacheMeta]
                        ELSE [cleaner EXCEPT !.dir = rest]
  /\ UNCHANGED <<mainVars, toWorker, toMain, wState, cachePath, cacheMeta,
                 queueVars, closeSnap, now>>

\* onClean: `await Deno.writeTextFile(...)` settles, the clean message
CleanFlush ==
  /\ WorkerAlive
  /\ ~MicrotaskDue
  /\ cleaner.pc = "flush"
  /\ metaFile' = cleaner.snap
  /\ sendMessage(<<Msg("clean", 0)>>)
  /\ cleaner' = [CleanerIdle EXCEPT
                    !.last = [meta |-> cacheMeta, time |-> now,
                              swept |-> TRUE, names |-> DOMAIN files]]
  /\ UNCHANGED <<mainVars, toWorker, wState, cachePath, cacheMeta, files,
                 queueVars, closeSnap, now>>

\* Time passes
Tick ==
  /\ now < MaxTime
  /\ now' = now + 1
  /\ UNCHANGED <<mainVars, toWorker, toMain, workerVars>>

-----------------------------------------------------------------------------
(* Inputs                                                                  *)

\* Options a caller passes to fetch
ShortLived == [DefaultOptions EXCEPT !.maxAge = 1, !.timeout = 1]
Warm == [DefaultOptions EXCEPT !.prefetch = "true", !.compress = "true"]
Menu == {DefaultOptions, ShortLived, Warm}

\* What the upstream answers to the network request of fetchFresh
Upstream(kind, status, chunks, contentLength) ==
  [kind |-> kind, status |-> status, contentLength |-> contentLength, chunks |-> chunks]
NotFound == Upstream("bad", 404, 0, 0)
NoBody == Upstream("bad", 200, 0, 0)
NetworkError == Upstream("throw", 0, 0, 0)
Bodies == {Upstream("ok", 200, n, l) : n \in 1..MaxChunks, l \in {0, 1}}
Responses == Bodies \cup {NotFound, NoBody, NetworkError}

\* What an earlier session left in the cache directory (meta.json and files)
OldEntry(hash, size, downloaded) ==
  [maxAge |-> 1, hash |-> hash, created |-> 0, contentLength |-> size,
   compressed |-> FALSE, contentSize |-> size, downloaded |-> downloaded]
Disk(meta, fs) == [files |-> fs, meta |-> meta]
NoDisk == Disk(Empty, Empty)
Disks ==
  { NoDisk,
    Disk(With(Empty, 1, OldEntry(encodeHash(1), 1, TRUE)), With(Empty, encodeHash(1), 1)),
    Disk(With(Empty, 1, OldEntry(StaleHash(1), 1, TRUE)), With(Empty, StaleHash(1), 1)),
    Disk(With(Empty, 1, OldEntry(encodeHash(1), 0, FALSE)), With(Empty, encodeHash(1), 0)),
    Disk(With(Empty, 1, OldEntry(encodeHash(1), 1, TRUE)), Empty) }

-----------------------------------------------------------------------------
(* The session from its construction                                       *)

\* The constructor has run and the worker module has posted its 'ready'
Constructed(disk) ==
  /\ readyState = 0
  /\ readyDone = FALSE
  /\ closedDone = FALSE
  /\ work = Empty
  /\ deferred = <<>>
  /\ awaiting = <<>>
  /\ calls = 0
  /\ lastCall = "none"
  /\ toWorker = <<>>
  /\ toMain = <<Msg("ready", 0)>>
  /\ wState = "run"
  /\ cachePath = ""
  /\ cacheMeta = Empty
  /\ files = disk.files
  /\ metaFile = disk.meta
  /\ waiting = <<>>
  /\ running = Empty
  /\ nextItem = 0
  /\ cleaner = CleanerIdle
  /\ closeSnap = Empty
  /\ now = 0

\* The steps of the session's message handlers
MainHandles ==
  \/ MainOnReady
  \/ MainOnClose
  \/ MainOnClean
  \/ MainOnMeta
  \/ MainOnPurge
  \/ MainOnResponse

\* The steps of a download whose upstream answers are drawn from `responses`
\* and whose disk operations end as `disk` says (TRUE: without error)
Download(responses, disk) ==
  \/ \E t \in DOMAIN running : TaskStart(t)
  \/ \E t \in DOMAIN running, r \in responses : TaskNet(t, r)
  \/ \E t \in DOMAIN running, ok \in disk : TaskOpen(t, ok)
  \/ \E t \in DOMAIN running, ok \in disk : TaskRead(t, ok)
  \/ \E t \in DOMAIN running, ok \in disk : TaskWrite(t, ok)
  \/ \E t \in DOMAIN running : TaskStat(t)

(* Spec: the lifecycle of a session on an empty cache directory, every     *)
(* public method called with default options.                              *)
Init == Constructed(NoDisk)

Next ==
  \/ \E u \in URLs : Fetch(u, DefaultOptions, MaxCalls)
  \/ FetchResume
  \/ \E u \in URLs : Meta(u, MaxCalls)
  \/ MetaResume
  \/ \E u \in URLs : Purge(u, MaxCalls)
  \/ PurgeResume
  \/ Clean(MaxCalls)
  \/ Close(MaxCalls)
  \/ MainHandles
  \/ OnReady
  \/ OnMeta
  \/ OnPurge
  \/ OnFetch
  \/ OnClose
  \/ OnCloseDone
  \/ OnClean
  \/ \E e \in cleaner.todo : CleanEntry(e)
  \/ \E n \in cleaner.dir : CleanDir(n)
  \/ CleanFlush
  \/ Download({Upstream("ok", 200, 1, 1), NetworkError}, {TRUE})

Spec == Init /\ [][Next]_vars

(* SpecFetch: fetches of one URL against what an earlier session left in   *)
(* the cache directory, with every upstream answer and disk error, while   *)
(* time passes.                                                            *)
InitFetch == \E disk \in Disks : Constructed(disk)

NextFetch ==
  \/ \E o \in Menu : Fetch(1, o, MaxFetches)
  \/ FetchResume
  \/ MainOnReady
  \/ MainOnResponse
  \/ OnReady
  \/ OnFetch
  \/ Download(Responses, BOOLEAN)
  \/ \E t \in DOMAIN running : TaskTimeout(t)
  \/ Tick

SpecFetch == InitFetch /\ [][NextFetch]_vars

(* SpecQueue: fetches of distinct URLs, one after the other, more than the *)
(* queue runs at once; the upstream answers each with an error.            *)
Accepts == {<<"application", "json">>, <<"text", "xml">>, <<"image", "png">>,
            <<"audio", "mpeg">>, <<"text", "html">>}
AcceptMenu(url) ==
  IF url <= Concurrency
    THEN {DefaultOptions}
    ELSE {[DefaultOptions EXCEPT !.accept = a] : a \in Accepts}

NextQueue ==
  \/ \E o \in AcceptMenu(calls + 1) : Fetch(calls + 1, o, MaxQueued)
  \/ FetchResume
  \/ MainOnReady
  \/ MainOnResponse
  \/ OnReady
  \/ OnFetch
  \/ \E t \in DOMAIN running : TaskStart(t)
  \/ \E t \in DOMAIN running : TaskNet(t, NotFound)

SpecQueue == Init /\ [][NextQueue]_vars

(* SpecSort: SpecQueue from the states in which the first `concurrency`    *)
(* downloads have started and wait for their upstream, and the fetch       *)
(* messages of MaxSorted further URLs are on their way to the worker       *)
(* (states SpecQueue reaches once it makes that many calls).               *)
FullHouse(accept) ==
  LET first == 1..Concurrency
      all == 1..(Concurrency + MaxSorted)
  IN
  /\ readyState = 1
  /\ readyDone = TRUE
  /\ closedDone = FALSE
  /\ work = [k \in {Key("fetch", u) : u \in all} |-> k[2]]
  /\ deferred = [d \in all |-> NewDeferred("fetch", d)]
  /\ awaiting = <<>>
  /\ calls = Concurrency + MaxSorted
  /\ lastCall = "await"
  /\ toWorker = [i \in 1..MaxSorted |->
                   [Msg("fetch", Concurrency + i) EXCEPT
                      !.options = [DefaultOptions EXCEPT
                                     !.accept = accept[Concurrency + i]]]]
  /\ toMain = <<>>
  /\ wState = "run"
  /\ cachePath = "dir"
  /\ cacheMeta = Empty
  /\ files = Empty
  /\ metaFile = Empty
  /\ waiting = <<>>
  /\ running = [t \in first |->
                  [Started([url |-> t, hash |-> encodeHash(t),
                            options |-> Resolved(DefaultOptions)])
                     EXCEPT !.pc = "net", !.status = 404]]
  /\ nextItem = Concurrency
  /\ cleaner = CleanerIdle
  /\ closeSnap = Empty
  /\ now = 0

InitSort ==
  \E accept \in [(Concurrency + 1)..(Concurrency + MaxSorted) -> Accepts] :
    FullHouse(accept)

NextSort ==
  \/ MainOnResponse
  \/ OnFetch
  \/ \E t \in DOMAIN running : TaskStart(t)
  \/ \E t \in DOMAIN running : TaskNet(t, NotFound)

SpecSort == InitSort /\ [][NextSort]_vars

(* SpecTwin: fetch called more than once for one URL, the calls made in    *)
(* any lifecycle state, on an empty cache directory and with an upstream  *)
(* that delivers its body.                                                *)
NextTwin ==
  \/ Fetch(1, DefaultOptions, MaxTwins)
  \/ FetchResume
  \/ MainOnReady
  \/ MainOnResponse
  \/ OnReady
  \/ OnFetch
  \/ Download({Upstream("ok", 200, 1, 1)}, {TRUE})

SpecTwin == Init /\ [][NextTwin]_vars

(* SpecClean: clean() and purge() against what an earlier session left in  *)
(* the cache directory: entries with and without their file, an entry     *)
(* under another hash, files no entry names; the entries expire as time   *)
(* passes.                                                                *)
CleanEntries(u) ==
  IF u = 1
    THEN {OldEntry(encodeHash(1), 1, TRUE), OldEntry(StaleHash(1), 1, TRUE)}
    ELSE {OldEntry(encodeHash(u), 1, TRUE)}
CleanMetas ==
  UNION {{m \in [U -> UNION {CleanEntries(u) : u \in URLs}] :
            \A u \in U : m[u] \in CleanEntries(u)} : U \in SUBSET URLs}
CleanFiles ==
  {[n \in N |-> 1] :
     N \in SUBSET ({encodeHash(u) : u \in URLs} \cup {StaleHash(1)})}
CleanDisks == {Disk(m, fs) : m \in CleanMetas, fs \in CleanFiles}

InitClean == \E disk \in CleanDisks : Constructed(disk)

NextClean ==
  \/ Clean(MaxCleans)
  \/ Purge(1, MaxCleans)
  \/ PurgeResume
  \/ MainOnReady
  \/ MainOnClean
  \/ MainOnPurge
  \/ OnReady
  \/ OnPurge
  \/ OnClean
  \/ \E e \in cleaner.todo : CleanEntry(e)
  \/ \E n \in cleaner.dir : CleanDir(n)
  \/ CleanFlush
  \/ Tick

SpecClean == InitClean /\ [][NextClean]_vars

(* SpecClose: fetch, meta and purge calls and close(), in every order and *)
(* lifecycle state.  The session's continuations and handlers and the     *)
(* worker's handlers and downloads are event-loop tasks: each runs once   *)
(* it is due, which the fairness conditions say.                          *)
SessionSteps ==
  \/ FetchResume
  \/ MetaResume
  \/ PurgeResume
  \/ MainOnReady
  \/ MainOnClose
  \/ MainOnMeta
  \/ MainOnPurge
  \/ MainOnResponse

WorkerSteps ==
  \/ OnReady
  \/ OnMeta
  \/ OnPurge
  \/ OnFetch
  \/ OnClose
  \/ OnCloseDone
  \/ Download({Upstream("ok", 200, 1, 1), NetworkError}, {TRUE})

NextClose ==
  \/ Fetch(1, DefaultOptions, MaxShut)
  \/ Meta(1, MaxShut)
  \/ Purge(1, MaxShut)
  \/ Close(MaxShut)
  \/ SessionSteps
  \/ WorkerSteps

SpecClose ==
  Init /\ [][NextClose]_vars /\ WF_vars(SessionSteps) /\ WF_vars(WorkerSteps)

(* SpecRace: purge() and clean() called while fetches of the same URL are  *)
(* in flight, on an empty cache directory and with an upstream that        *)
(* delivers its body.                                                      *)
NextRace ==
  \/ Fetch(1, DefaultOptions, MaxRaces)
  \/ FetchResume
  \/ Purge(1, MaxRaces)
  \/ PurgeResume
  \/ Clean(MaxRaces)
  \/ MainOnReady
  \/ MainOnResponse
  \/ MainOnPurge
  \/ MainOnClean
  \/ OnReady
  \/ OnFetch
  \/ OnPurge
  \/ OnClean
  \/ \E e \in cleaner.todo : CleanEntry(e)
  \/ \E n \in cleaner.dir : CleanDir(n)
  \/ CleanFlush
  \/ Download({Upstream("ok", 200, 1, 1)}, {TRUE})

SpecRace == Init /\ [][NextRace]_vars

-----------------------------------------------------------------------------
(* Properties of the session (checked under Spec)                          *)

KeyOf(d) == Key(deferred[d].kind, deferred[d].url)
Pending(d) == deferred[d].st = "pending"
CallOf(rets) == calls' = calls + 1 /\ lastCall' \in rets

\* C1: for fetch, meta and purge there is at most one pending operation
\* per (kind, url): every operation that has not completed is the one
\* registered under its key, the one the matching response completes (a
\* pending operation that is not registered is completed by no message).
C1_OnePendingPerKey ==
  \A d \in DOMAIN deferred :
    (Pending(d) /\ deferred[d].kind # "clean")
       => (KeyOf(d) \in DOMAIN work /\ work[KeyOf(d)] = d)

\* C2: readyState only moves forward: a later value is never smaller than
\* an earlier one.
C2_ReadyStateMonotonic == [][readyState' >= readyState]_vars

\* C3: a call of fetch, meta or purge made while readyState is Closing or
\* Closed throws at once: it registers no pending operation, posts no
\* message and does not wait for the worker.
C3_ClosedCallsThrow ==
  [][(readyState > 1 /\ CallOf({"threw", "shared", "await"}))
       => /\ lastCall' = "threw"
          /\ UNCHANGED <<work, deferred, awaiting, toWorker>>]_vars

C3_Witness == readyState > 1 /\ lastCall = "threw"

\* C4: clean() called while readyState is Closing or Closed is rejected at
\* once: it posts no clean message and registers no pending clean.
C4_ClosedCleanRejected ==
  [][(readyState > 1 /\ CallOf({"clean", "clean shared"}))
       => UNCHANGED <<work, deferred, toWorker>>]_vars

\* C10: the purge of a URL that has no index entry and no file (no fetch of
\* it was ever made, on a cache directory that started empty) completes with
\* success = true.
NeverFetched(url) ==
  /\ \A d \in DOMAIN deferred : ~(deferred[d].kind = "fetch" /\ deferred[d].url = url)
  /\ \A i \in DOMAIN awaiting : ~(awaiting[i].kind = "fetch" /\ awaiting[i].url = url)

C10_PurgeOfUnknownSucceeds ==
  \A d \in DOMAIN deferred :
    (deferred[d].kind = "purge" /\ ~Pending(d) /\ NeverFetched(deferred[d].url))
       => (deferred[d].st = "resolved" /\ deferred[d].val = "true")

-----------------------------------------------------------------------------
(* Properties of the download queue (checked under SpecQueue, SpecSort)    *)

Admitted == DOMAIN running' \ DOMAIN running
Left == DOMAIN running \ DOMAIN running'
WaitingIds == {waiting[i].id : i \in DOMAIN waiting}

\* C5: at most 5 downloads run at any moment; an item waits only while 5
\* run (so the first 5 submitted start at once), and an item that has waited
\* starts only in a step in which a running download finishes.
C5_AtMostFiveRun ==
  /\ [](Cardinality(DOMAIN running) <= 5)
  /\ [](waiting # <<>> => Cardinality(DOMAIN running) = 5)
  /\ [][\A t \in Admitted : t \in WaitingIds => Left # {}]_vars

C5_Witness ==
  /\ Cardinality(DOMAIN running) = 5
  /\ 6 \in DOMAIN running
  /\ running[6].pc = "net"

\* The ranks of the claim, for the media types of the model
ClaimedRank(accept) ==
  CASE accept = <<"application", "json">> -> 1
    [] accept = <<"text", "xml">> -> 1
    [] accept = <<"image", "png">> -> 2
    [] accept = <<"audio", "mpeg">> -> 4
    [] OTHER -> 3

Before(a, b) ==
  \/ ClaimedRank(a.options.accept) < ClaimedRank(b.options.accept)
  \/ /\ ClaimedRank(a.options.accept) = ClaimedRank(b.options.accept)
     /\ a.id < b.id

\* C6: when a running download finishes while items wait, the item that
\* starts is the waiting item of the lowest rank (JSON or XML 1, image 2,
\* anything else 3, audio 4), and among equal ranks the one submitted first.
C6_LowestRankStartsNext ==
  [][\A i \in DOMAIN waiting :
       waiting[i].id \in Admitted
         => \A j \in DOMAIN waiting : j # i => Before(waiting[i], waiting[j])]_vars

\* an item has started ahead of one that was submitted before it
C6_Witness ==
  \E t \in DOMAIN running : \E i \in DOMAIN waiting :
    /\ waiting[i].id < t
    /\ ClaimedRank(running[t].options.accept) < ClaimedRank(waiting[i].options.accept)

-----------------------------------------------------------------------------
(* Properties of the fetch pipeline (checked under SpecFetch)              *)

\* the synchronous part of fetchCallback runs for item t in this step
StartsNow(t) ==
  /\ t \in DOMAIN running
  /\ running[t].pc = "start"
  /\ t \in DOMAIN running' => running'[t].pc # "start"

Posted == SubSeq(toMain', Len(toMain) + 1, Len(toMain'))

\* C7: a fetch that finds an index entry with the hash of its URL and an
\* age within the request's maxAge is answered with an x-cache: HIT response
\* that is not a failure; the download ends there without a network request,
\* and index and files stay as they are.
C7_FreshEntryHits ==
  [][\A t \in DOMAIN running :
       (/\ StartsNow(t)
        /\ ~running[t].aborted
        /\ running[t].url \in DOMAIN cacheMeta
        /\ cacheMeta[running[t].url].hash = encodeHash(running[t].url)
        /\ now - cacheMeta[running[t].url].created <= running[t].options.maxAge)
       => /\ fetchCache(cacheMeta, running[t], now) = 200
          /\ Len(Posted) = 1
          /\ Posted[1].type = "response"
          /\ Posted[1].url = running[t].url
          /\ Posted[1].xcache = "HIT"
          /\ Posted[1].body # "null"
          /\ t \notin DOMAIN running'
          /\ UNCHANGED <<cacheMeta, files>>]_vars

C7_Witness ==
  \E i \in DOMAIN toMain : toMain[i].type = "response" /\ toMain[i].xcache = "HIT"

\* C8: a fetch that finds an index entry older than the request's maxAge
\* posts no HIT: the entry and the file are removed and the network request
\* is made before any response of the download is posted, and the response
\* it posts later is not a HIT.
C8_ExpiredEntryRefetched ==
  [][\A t \in DOMAIN running :
       /\ (/\ StartsNow(t)
           /\ ~running[t].aborted
           /\ running[t].url \in DOMAIN cacheMeta
           /\ now - cacheMeta[running[t].url].created > running[t].options.maxAge)
          => /\ Posted = <<>>
             /\ running[t].url \notin DOMAIN cacheMeta'
             /\ encodeHash(running[t].url) \notin DOMAIN files'
             /\ t \in DOMAIN running'
             /\ running'[t].pc = "net"
       /\ (running[t].pc # "start" /\ t \notin DOMAIN running')
          => \A i \in DOMAIN Posted : Posted[i].xcache # "HIT"]_vars

\* the network request of a download that found an expired entry is under way
C8_Witness ==
  \E t \in DOMAIN running :
    /\ running[t].pc = "net"
    /\ running[t].status = 410
    /\ running[t].url \in DOMAIN metaFile
    /\ metaFile[running[t].url].hash = encodeHash(running[t].url)
    /\ now - metaFile[running[t].url].created > running[t].options.maxAge
    /\ nextItem = 1

\* C9: once a fetch of a URL whose index entry stored another hash has
\* completed, the file named by the stored hash is gone.  (SpecFetch never
\* rewrites meta.json: metaFile is the index the worker loaded.)
C9_StaleFileGone ==
  \A d \in DOMAIN deferred :
    (/\ deferred[d].kind = "fetch"
     /\ ~Pending(d)
     /\ deferred[d].url \in DOMAIN metaFile
     /\ metaFile[deferred[d].url].hash # encodeHash(deferred[d].url))
    => metaFile[deferred[d].url].hash \notin DOMAIN files

-----------------------------------------------------------------------------
(* Properties of the caller's result of a fetch (SpecFetch, SpecWarm)      *)

\* the failed response of fetchCallback: no x-cache header, a failure status
IsFailure(m) == m.type = "response" /\ m.xcache = "none"

\* the session settles the fetch of the response message it handles
Answers(m) ==
  /\ toMain # <<>>
  /\ Head(toMain) = m
  /\ Key("fetch", m.url) \in DOMAIN work
  /\ toMain' = Tail(toMain)

\* C11: when the response of a failed download reaches the session, the
\* caller's fetch is rejected or is resolved with a result that carries the
\* failure status of the message; it is not resolved as a 200 response.
C11_FailureCompletesNegatively ==
  [][\A m \in {toMain[i] : i \in DOMAIN toMain} :
       (IsFailure(m) /\ Answers(m))
         => LET d == deferred'[work[Key("fetch", m.url)]]
            IN /\ d.st # "pending"
               /\ d.st = "resolved" => (d.status = m.status /\ d.status # 200)]_vars

IsSuccess(m) == m.type = "response" /\ m.xcache \in {"HIT", "MISS"}

\* C12: the HIT or MISS response of a download with prefetch set carries no
\* body reference, and when it reaches the session the caller's fetch is
\* resolved with a headers-only response.
C12_PrefetchResolvesHeadersOnly ==
  [][/\ \A t \in DOMAIN running : \A i \in DOMAIN Posted :
          (running[t].options.prefetch /\ t \notin DOMAIN running'
             /\ Posted[i].url = running[t].url /\ IsSuccess(Posted[i]))
            => Posted[i].body \notin {"path"}
     /\ \A m \in {toMain[i] : i \in DOMAIN toMain} :
          (IsSuccess(m) /\ m.body # "path" /\ Answers(m))
            => LET d == deferred'[work[Key("fetch", m.url)]]
               IN d.st = "resolved" /\ d.val = "headers"]_vars

-----------------------------------------------------------------------------
(* Properties of close() (checked under SpecClose)                         *)

\* close() has not been called: no close message is on its way and the
\* worker has handled none
CloseNotCalled ==
  /\ readyState < 2
  /\ wState = "run"
  /\ \A i \in DOMAIN toWorker : toWorker[i].type # "close"

\* deferred d is the operation registered under its key
Registered(d) == KeyOf(d) \in DOMAIN work /\ work[KeyOf(d)] = d

\* C13: a fetch, meta or purge that is pending while close() has not yet
\* been called is eventually resolved or rejected (or replaced under its key
\* by a later call, which is C1's matter), whatever happens after it.
C13_AcceptedCallsComplete ==
  \A d \in 1..MaxShut :
    (d \in DOMAIN deferred /\ Pending(d) /\ CloseNotCalled)
      ~> (d \in DOMAIN deferred /\ (~Pending(d) \/ ~Registered(d)))

\* close() has been called and its message posted
CloseCalled ==
  \/ \E i \in DOMAIN toWorker : toWorker[i].type = "close"
  \/ wState \in {"closing", "closed"}
  \/ closedDone

\* C14: once close() has been called, in Opening or Ready, the worker
\* eventually writes the index and acknowledges, and the session reaches
\* readyState Closed(3) with the promise of close() resolved.
C14_CloseCompletes == CloseCalled ~> (readyState = 3 /\ closedDone)

-----------------------------------------------------------------------------
(* Properties of clean() (checked under SpecClean)                         *)

\* onClean posts its clean message in this step
Acknowledges == cleaner.pc = "flush" /\ cleaner'.pc = "idle"

\* purge has not been called
NoPurge ==
  /\ \A d \in DOMAIN deferred : deferred[d].kind # "purge"
  /\ \A i \in DOMAIN awaiting : awaiting[i].kind # "purge"

\* C15: a clean that follows a completed clean, with no fetch or purge and
\* with no entry of the index passing its maxAge since, ends with the index
\* and the set of files as the first clean left them.
C15_CleanTwiceChangesNothing ==
  [][(/\ Acknowledges
      /\ cleaner.last.swept
      /\ NoPurge
      /\ \A u \in DOMAIN cleaner.last.meta : ~Expired(cleaner.last.meta[u], now))
     => /\ cacheMeta' = cleaner.last.meta
        /\ DOMAIN files' = cleaner.last.names
        /\ metaFile' = cleaner.last.meta]_vars

\* two cleans have completed and the first left an entry and its file
C15_Witness ==
  /\ Len(deferred) = 2
  /\ \A d \in DOMAIN deferred : deferred[d].kind = "clean" /\ ~Pending(d)
  /\ cleaner.last.swept
  /\ cleaner.last.meta # Empty
  /\ cleaner.last.names # {}
  /\ now > 0

\* What a completed sweep is claimed to leave at time `time`
Reconciled(meta, fs, persisted, time) ==
  /\ \A u \in DOMAIN meta :
       meta[u].hash \in DOMAIN fs /\ time - meta[u].created <= meta[u].maxAge
  /\ \A n \in DOMAIN fs : \E u \in DOMAIN meta : meta[u].hash = n
  /\ persisted = meta

-----------------------------------------------------------------------------
(* Properties of a completed download (SpecFetch, SpecTwin)                *)

\* item t ends in this step and posts the one message m
Ends(t, m) ==
  /\ t \in DOMAIN running
  /\ t \notin DOMAIN running'
  /\ Posted = <<m>>
  /\ m.url = running[t].url

\* C17: when a download posts its MISS response, the index holds an entry
\* for the URL with hash = encodeHash(url), the maxAge and the compress flag
\* of the request, downloaded set, and contentLength = the size of the file
\* = contentSize.
C17_MissEntryIsComplete ==
  [][\A t \in DOMAIN running : \A m \in {toMain'[i] : i \in DOMAIN toMain'} :
       (Ends(t, m) /\ m.xcache = "MISS")
         => /\ m.url \in DOMAIN cacheMeta'
            /\ encodeHash(m.url) \in DOMAIN files'
            /\ LET entry == cacheMeta'[m.url]
               IN /\ entry.hash = encodeHash(m.url)
                  /\ entry.maxAge = running[t].options.maxAge
                  /\ entry.compressed = running[t].options.compress
                  /\ entry.downloaded
                  /\ entry.contentLength = files'[encodeHash(m.url)]
                  /\ entry.contentSize = entry.contentLength]_vars

\* C18: when a download posts its failed response, the index holds no entry
\* for its URL and no file exists at its path.
C18_FailureLeavesNothing ==
  [][\A t \in DOMAIN running : \A m \in {toMain'[i] : i \in DOMAIN toMain'} :
       (Ends(t, m) /\ IsFailure(m))
         => /\ m.url \notin DOMAIN cacheMeta'
            /\ running[t].hash \notin DOMAIN files']_vars

\* a download that had recorded its entry has failed (status 500 is the
\* failure of the part of fetchFresh that follows the entry)
C18_Witness ==
  \E i \in DOMAIN toMain :
    /\ IsFailure(toMain[i])
    /\ toMain[i].status = 500
    /\ toMain[i].url \notin DOMAIN cacheMeta
    /\ encodeHash(toMain[i].url) \notin DOMAIN files

-----------------------------------------------------------------------------
(* Properties of the worker's close (checked under SpecClose)              *)

\* C19: the index that onClose writes holds no entry of a download that has
\* not completed, and once it is written no download changes the in-memory
\* index or a file.
C19_FlushAfterCleanup ==
  /\ [](wState = "closed" => \A u \in DOMAIN metaFile : metaFile[u].downloaded)
  /\ [][wState = "closed" => UNCHANGED <<cacheMeta, files>>]_vars

\* C20: once the worker has begun to handle a close message no item is
\* appended to the queue and none is started.
C20_NoAdmissionAfterClose ==
  [][wState # "run"
       => /\ nextItem' = nextItem
          /\ DOMAIN running' \subseteq DOMAIN running]_vars

-----------------------------------------------------------------------------
(* Properties of purge and clean racing a download (checked under SpecRace) *)

\* C21: a download whose index entry a purge removed while it was between
\* recording the entry and the commit ends with the failed response, never
\* with a MISS response, and when it ends the index holds no entry for its
\* URL.
C21_PurgeCancelsDownload ==
  [][\A t \in DOMAIN running :
       (running[t].purged /\ t \notin DOMAIN running')
         => /\ \E m \in {Posted[i] : i \in DOMAIN Posted} :
                 Ends(t, m) /\ IsFailure(m)
            /\ running[t].url \notin DOMAIN cacheMeta']_vars

\* a step of onClean
Sweeps == cleaner' # cleaner

\* C28: no step of onClean removes the index entry or the file of a download
\* that is between recording its entry and its commit.
C28_CleanSparesDownload ==
  [][Sweeps =>
       \A t \in DOMAIN running :
         Streaming(running[t])
           => /\ running[t].url \in DOMAIN cacheMeta
                   => running[t].url \in DOMAIN cacheMeta'
              /\ running[t].hash \in DOMAIN files
                   => running[t].hash \in DOMAIN files']_vars

-----------------------------------------------------------------------------
(* Properties of the download's timer and statuses                         *)

\* C22: the timeout timer of a download is armed from its start: in every
\* stage that follows the synchronous start of fetchCallback, the wait for
\* the upstream response included, the download has a timer that aborts
\* it once `timeout` ms have passed (checked under SpecFetch).
C22_TimerArmedAtStart ==
  \A t \in DOMAIN running :
    running[t].pc # "start" => running[t].timer >= 0

\* The statuses a failed response may carry when the download fails at the
\* network request: 500 for an exception, 418 for a 200 without a usable
\* body, the upstream's status for a non-2xx answer
RefusedStatuses ==
  {r.status : r \in {x \in Responses : x.kind = "bad" /\ x.status # 200}}
FailureStatuses == {500, 418} \cup RefusedStatuses

\* C23: the failed response of a download carries 500, 418 or the status of
\* the upstream's non-2xx answer when the download fails at the network
\* request and 500 when it fails later; it never carries the 410 (or a 404
\* the upstream did not send) that fetchCache returned (checked under
\* SpecFetch).
C23_FailureStatus ==
  [][\A t \in DOMAIN running : \A m \in {Posted[i] : i \in DOMAIN Posted} :
       (Ends(t, m) /\ IsFailure(m))
         => IF running[t].pc = "net"
              THEN m.status \in FailureStatuses
              ELSE m.status = 500]_vars

-----------------------------------------------------------------------------
(* Properties of the start of the worker (checked under Spec)              *)

\* the worker's listener takes the oldest message of the session
WorkerTakes == toWorker # <<>> /\ toWorker' = Tail(toWorker)
\* the session posts message m
SessionPosts(m) == toWorker' = Append(toWorker, m)

\* C24: a message the worker handles before it has the storage directory
\* is the ready message, and while the session is Opening it posts no
\* message but the ready acknowledgement.
C24_NothingBeforeReady ==
  /\ [][(WorkerTakes /\ cachePath = "") => Head(toWorker).type = "ready"]_vars
  /\ [][\A type \in {"clean", "close", "fetch", "meta", "purge"} :
          \A u \in URLs \cup {0} : \A o \in Menu :
            readyState = 0 => ~SessionPosts([Msg(type, u) EXCEPT !.options = o])]_vars

-----------------------------------------------------------------------------
(* Properties of the cache check (checked under SpecFetch)                 *)

IsHit(m) == m.type = "response" /\ m.xcache = "HIT"

\* An entry is valid: stored under the hash of its URL, not older than the
\* maxAge stored in it, and its file exists
Valid(meta, fs, url, time) ==
  /\ url \in DOMAIN meta
  /\ meta[url].hash = encodeHash(url)
  /\ time - meta[url].created <= meta[url].maxAge
  /\ meta[url].hash \in DOMAIN fs

\* C25: when a download posts a HIT response, the entry of its URL is valid
\* at that moment: stored hash = encodeHash(url), now - created <= the
\* maxAge stored in the entry, and the backing file exists.
C25_HitOnlyValid ==
  [][\A t \in DOMAIN running : \A m \in {Posted[i] : i \in DOMAIN Posted} :
       (Ends(t, m) /\ IsHit(m)) => Valid(cacheMeta, files, m.url, now)]_vars

\* C27: when a download posts a HIT response, the entry of its URL is that
\* of a completed download (`downloaded` is set), whether a download of this
\* session recorded it or onReady loaded it from meta.json.
C27_HitOnlyDownloaded ==
  [][\A t \in DOMAIN running : \A m \in {Posted[i] : i \in DOMAIN Posted} :
       (Ends(t, m) /\ IsHit(m))
         => (m.url \in DOMAIN cacheMeta /\ cacheMeta[m.url].downloaded)]_vars

-----------------------------------------------------------------------------
(* Properties of purge (checked under Spec)                                *)

\* the session completes operation d in this step
Completes(d) ==
  /\ d \in DOMAIN deferred
  /\ Pending(d)
  /\ deferred'[d].st # "pending"

\* a purge message for url is on its way to the worker
PurgeInFlight(url) ==
  \E i \in DOMAIN toWorker : toWorker[i].type = "purge" /\ toWorker[i].url = url

\* C26: the worker posts exactly one response for a purge message it
\* handles, and a purge call is completed only after the worker has handled
\* its message.
C26_OnePurgeResponse ==
  /\ [][(WorkerTakes /\ Head(toWorker).type = "purge") => Len(Posted) = 1]_vars
  /\ [][\A d \in DOMAIN deferred :
          (deferred[d].kind = "purge" /\ Completes(d))
             => ~PurgeInFlight(deferred[d].url)]_vars

====
